---- MODULE Spec2Model ----
(***************************************************************************)
(* Model of fw/bno055_steps/wifi.ino: the WiFi connector                   *)
(* (initialize_wifi), the single-shot telemetry sender (send_data(String)),*)
(* the retry wrapper (send_data(String, uint8_t)) and the status           *)
(* classifier (is_bad_http_code).  The external collaborators WiFi.status, *)
(* https.begin, https.POST, T1C and sos_mode are the environment: each     *)
(* read or call yields a nondeterministic value from a small set.          *)
(***************************************************************************)
EXTENDS Integers, Sequences, FiniteSets, TLC

VARIABLES
    pc,             \* position of the single thread of control
    \* ---- initialize_wifi
    wifi_attempts,  \* unsigned int attempts (line 16)
    pollLog,        \* values returned by WiFi.status(), in call order
    wifi_delay_ms,  \* total time spent in delay() (line 19)
    wifi_ret,       \* "none" | "true" | "false": value returned
    wifi_begins,    \* WiFi.begin calls (line 14)
    \* ---- send_data(String, uint8_t)
    T1C,            \* hardware timer-control register (read only)
    max_attempts,   \* uint8_t argument
    attempts,       \* uint8_t attempts (line 38)
    httpCode,       \* int httpCode of the wrapper (line 37)
    rets,           \* statuses returned by the single-shot sender, in order
    calls,          \* single-shot calls started in this wrapper call
    sosCalls,       \* sos_mode invocations in this wrapper call
    beginFails,     \* https.begin failures in this wrapper call
    \* ---- send_data(String)
    ss_httpCode,    \* int httpCode of the single-shot sender (line 48)
    callT1C,        \* T1C as read at entry of the current single-shot call
    callSos,        \* sos_mode invocations in the current single-shot call
    callBegins,     \* https.begin calls in the current single-shot call
    callPosts,      \* https.POST calls in the current single-shot call
    callBeginOk,    \* "none" | "ok" | "fail": result of https.begin
    postCode,       \* value https.POST produced in the current call
    connOpen,       \* an HTTPS connection is open (begin ok, end not yet)
    \* ---- is_bad_http_code called on its own
    arg_code,       \* argument
    is_bad_result   \* "none" | "true" | "false"

vars == <<pc, wifi_attempts, pollLog, wifi_delay_ms, wifi_ret, wifi_begins,
          T1C, max_attempts, attempts, httpCode, rets, calls, sosCalls,
          beginFails,
          ss_httpCode, callT1C, callSos, callBegins, callPosts, callBeginOk,
          postCode, connOpen, arg_code, is_bad_result>>

wifiVars == <<wifi_attempts, pollLog, wifi_delay_ms, wifi_ret, wifi_begins>>
wrapVars == <<max_attempts, attempts, httpCode, rets>>
callVars == <<ss_httpCode, callT1C, callSos, callBegins, callPosts,
              callBeginOk, postCode, connOpen>>
classVars == <<arg_code, is_bad_result>>

(***************************************************************************)
(* Bounds of the model                                                     *)
(***************************************************************************)
MaxAttemptsArg == 4       \* max_attempts is drawn from 0..MaxAttemptsArg
CodeSpan == 700           \* is_bad_http_code is applied to -CodeSpan..CodeSpan

(***************************************************************************)
(* Program constants                                                       *)
(***************************************************************************)
WifiAttemptLimit == 10    \* if (attempts > 10)
PollDelayMs == 1000       \* delay(1000)
InitialHttpCode_zero == 1 - 1
InitialHttpCode == 0 - 1  \* int httpCode = -1
InitialAttempts_zero == 1 - 1
InitialAttempts == 1      \* uint8_t attempts = 1
UInt8 == 256

WL_CONNECTED == "WL_CONNECTED"
WifiStatuses == {"WL_CONNECTED", "WL_DISCONNECTED", "WL_IDLE_STATUS"}

\* values the T1C register can hold (0 = timer interrupt disabled)
T1CValues == {0, 1, 128}
\* values https.POST can produce: HTTP statuses and the library's negative
\* error codes
PostCodes == {0 - 1, 199, 200, 299, 300, 500}

\* The environment of a wrapper call with max_attempts above MaxAttemptsArg
\* (the 255-call runs): every https.begin succeeds and the server answers
\* 200 or 500 only; the small arguments meet the full environment
PostCodesFor(m) == IF m > MaxAttemptsArg THEN {200, 500} ELSE PostCodes
BeginResultsFor(m) == IF m > MaxAttemptsArg THEN {TRUE} ELSE BOOLEAN

BoolStr(b) == IF b THEN "true" ELSE "false"

(***************************************************************************)
(* is_bad_http_code (lines 79-81)                                          *)
(***************************************************************************)
is_bad_http_code_le(c) == c <= 200 \/ 300 <= c
is_bad_http_code(c) == c < 200 \/ 300 <= c

\* loop condition of the retry wrapper (line 39)
RetryCond_le(code, att, max) == is_bad_http_code(code) /\ att <= max
RetryCond(code, att, max) == is_bad_http_code(code) /\ att < max

\* the precondition check of the single-shot sender (line 49)
InterruptEnabled_inv(t) == t = 0
InterruptEnabled(t) == t # 0

\* httpCode = https.POST(post_data) (line 62)
PostAssign_shadow(old, code) == old
PostAssign(old, code) == code

Init ==
    /\ pc = "idle"
    /\ wifi_attempts = 0
    /\ pollLog = <<>>
    /\ wifi_delay_ms = 0
    /\ wifi_ret = "none"
    /\ wifi_begins = 0
    /\ T1C \in T1CValues
    /\ max_attempts = 0
    /\ attempts = 0
    /\ httpCode = 0
    /\ rets = <<>>
    /\ calls = 0
    /\ sosCalls = 0
    /\ beginFails = 0
    /\ ss_httpCode = 0
    /\ callT1C = 0
    /\ callSos = 0
    /\ callBegins = 0
    /\ callPosts = 0
    /\ callBeginOk = "none"
    /\ postCode = 0
    /\ connOpen = FALSE
    /\ arg_code = 0
    /\ is_bad_result = "none"

(***************************************************************************)
(* initialize_wifi (lines 11-34)                                           *)
(***************************************************************************)
\* lines 13-16: WiFi.mode, WiFi.begin, attempts = 0
initialize_wifi ==
    /\ pc = "idle"
    /\ pc' = "w_while"
    /\ wifi_attempts' = 0
    /\ wifi_begins' = wifi_begins + 1
    /\ UNCHANGED <<pollLog, wifi_delay_ms, wifi_ret>>
    /\ UNCHANGED <<T1C, calls, sosCalls, beginFails>>
    /\ UNCHANGED <<wrapVars, callVars, classVars>>

\* line 17: while (WiFi.status() != WL_CONNECTED)
WifiWhile ==
    /\ pc = "w_while"
    /\ \E s \in WifiStatuses :
        /\ pollLog' = Append(pollLog, s)
        /\ pc' = IF s # WL_CONNECTED THEN "w_body" ELSE "w_if"
    /\ UNCHANGED <<wifi_attempts, wifi_delay_ms, wifi_ret, wifi_begins>>
    /\ UNCHANGED <<T1C, calls, sosCalls, beginFails>>
    /\ UNCHANGED <<wrapVars, callVars, classVars>>

\* the loop body without its give-up test
WifiBody_nobreak ==
    /\ pc = "w_body"
    /\ wifi_delay_ms' = wifi_delay_ms + PollDelayMs
    /\ wifi_attempts' = wifi_attempts + 1
    /\ pc' = "w_while"
    /\ UNCHANGED <<pollLog, wifi_ret, wifi_begins>>
    /\ UNCHANGED <<T1C, calls, sosCalls, beginFails>>
    /\ UNCHANGED <<wrapVars, callVars, classVars>>

\* lines 18-24: delay(1000); attempts++; if (attempts > 10) break;
WifiBody ==
    /\ pc = "w_body"
    /\ wifi_delay_ms' = wifi_delay_ms + PollDelayMs
    \* unsigned int: the counter stops at WifiAttemptLimit + 1, far from 2^32
    /\ wifi_attempts' = wifi_attempts + 1
    /\ pc' = IF wifi_attempts' > WifiAttemptLimit THEN "w_if" ELSE "w_while"
    /\ UNCHANGED <<pollLog, wifi_ret, wifi_begins>>
    /\ UNCHANGED <<T1C, calls, sosCalls, beginFails>>
    /\ UNCHANGED <<wrapVars, callVars, classVars>>

\* lines 26-33: if (WiFi.status() == WL_CONNECTED) return true; else false
WifiIf ==
    /\ pc = "w_if"
    /\ \E s \in WifiStatuses :
        /\ pollLog' = Append(pollLog, s)
        /\ wifi_ret' = BoolStr(s = WL_CONNECTED)
    /\ pc' = "done"
    /\ UNCHANGED <<wifi_attempts, wifi_delay_ms, wifi_begins>>
    /\ UNCHANGED <<T1C, calls, sosCalls, beginFails>>
    /\ UNCHANGED <<wrapVars, callVars, classVars>>

(***************************************************************************)
(* send_data(String post_data, uint8_t max_attempts) (lines 36-44)         *)
(***************************************************************************)
\* the call itself; line 37 then enters the single-shot sender
send_data_retry ==
    /\ pc = "idle"
    /\ \E m \in 0..MaxAttemptsArg : max_attempts' = m % UInt8
    /\ pc' = "s_enter"
    /\ UNCHANGED <<attempts, httpCode, rets>>
    /\ UNCHANGED <<T1C, calls, sosCalls, beginFails>>
    /\ UNCHANGED <<wifiVars, callVars, classVars>>

\* line 39: while (is_bad_http_code(httpCode) && attempts < max_attempts)
RetryWhile ==
    /\ pc = "r_while"
    /\ pc' = IF RetryCond(httpCode, attempts, max_attempts)
             THEN "r_body" ELSE "done"
    /\ UNCHANGED <<T1C, calls, sosCalls, beginFails>>
    /\ UNCHANGED <<wifiVars, wrapVars, callVars, classVars>>

\* the widest argument: max_attempts = 255
send_data_retry_max ==
    /\ pc = "idle"
    /\ max_attempts' = UInt8 - 1
    /\ pc' = "s_enter"
    /\ UNCHANGED <<attempts, httpCode, rets>>
    /\ UNCHANGED <<T1C, calls, sosCalls, beginFails>>
    /\ UNCHANGED <<wifiVars, callVars, classVars>>

\* the loop body without its increment
RetryBody_noinc ==
    /\ pc = "r_body"
    /\ attempts' = attempts
    /\ pc' = "s_enter"
    /\ UNCHANGED <<max_attempts, httpCode, rets>>
    /\ UNCHANGED <<T1C, calls, sosCalls, beginFails>>
    /\ UNCHANGED <<wifiVars, callVars, classVars>>

\* lines 40-42: attempts++; then send_data(post_data) is entered
RetryBody ==
    /\ pc = "r_body"
    /\ attempts' = (attempts + 1) % UInt8
    /\ pc' = "s_enter"
    /\ UNCHANGED <<max_attempts, httpCode, rets>>
    /\ UNCHANGED <<T1C, calls, sosCalls, beginFails>>
    /\ UNCHANGED <<wifiVars, callVars, classVars>>

(***************************************************************************)
(* send_data(String post_data) (lines 47-77)                               *)
(***************************************************************************)
\* lines 47-52: httpCode = -1; if (T1C != 0) sos_mode();
send_data ==
    /\ pc = "s_enter"
    /\ calls' = calls + 1
    /\ ss_httpCode' = InitialHttpCode
    /\ callT1C' = T1C
    /\ callBegins' = 0
    /\ callPosts' = 0
    /\ callBeginOk' = "none"
    /\ postCode' = 0
    /\ IF InterruptEnabled(T1C)
       THEN /\ callSos' = 1
            /\ sosCalls' = sosCalls + 1
            /\ pc' = "sos_T1C"
       ELSE /\ callSos' = 0
            /\ sosCalls' = sosCalls
            /\ pc' = "s_begin"
    /\ UNCHANGED <<T1C, connOpen, beginFails>>
    /\ UNCHANGED <<wifiVars, wrapVars, classVars>>

\* sos_mode(), defined outside this file: the error-signal routine either
\* comes back to its caller or never does
sos_mode_returns ==
    /\ pc \in {"sos_T1C", "sos_begin"}
    /\ pc' = IF pc = "sos_T1C" THEN "s_begin" ELSE "s_return"
    /\ UNCHANGED <<T1C, calls, sosCalls, beginFails>>
    /\ UNCHANGED <<wifiVars, wrapVars, callVars, classVars>>

sos_mode_halts ==
    /\ pc \in {"sos_T1C", "sos_begin"}
    /\ pc' = "halted"
    /\ UNCHANGED <<T1C, calls, sosCalls, beginFails>>
    /\ UNCHANGED <<wifiVars, wrapVars, callVars, classVars>>

\* lines 53-59 and 72-75: build the client; if (https.begin(...)) ... else
\* sos_mode();
HttpsBegin ==
    /\ pc = "s_begin"
    /\ callBegins' = callBegins + 1
    /\ \E ok \in BeginResultsFor(max_attempts) :
        IF ok
        THEN /\ callBeginOk' = "ok"
             /\ connOpen' = TRUE
             /\ callSos' = callSos
             /\ sosCalls' = sosCalls
             /\ beginFails' = beginFails
             /\ pc' = "s_post"
        ELSE /\ callBeginOk' = "fail"
             /\ connOpen' = connOpen
             /\ callSos' = callSos + 1
             /\ sosCalls' = sosCalls + 1
             /\ beginFails' = beginFails + 1
             /\ pc' = "sos_begin"
    /\ UNCHANGED <<T1C, calls, ss_httpCode, callT1C, callPosts, postCode>>
    /\ UNCHANGED <<wifiVars, wrapVars, classVars>>

\* lines 60-63: delay; addHeader; httpCode = https.POST(post_data); getString
HttpsPost ==
    /\ pc = "s_post"
    /\ \E code \in PostCodesFor(max_attempts) :
        /\ postCode' = code
        /\ ss_httpCode' = PostAssign(ss_httpCode, code)
    /\ callPosts' = callPosts + 1
    /\ pc' = "s_end"
    /\ UNCHANGED <<T1C, calls, sosCalls, beginFails, callT1C, callSos, callBegins,
                   callBeginOk, connOpen>>
    /\ UNCHANGED <<wifiVars, wrapVars, classVars>>

\* the same lines without https.end()
HttpsEnd_leak ==
    /\ pc = "s_end"
    /\ connOpen' = connOpen
    /\ pc' = "s_return"
    /\ UNCHANGED <<T1C, calls, sosCalls, beginFails, ss_httpCode, callT1C, callSos,
                   callBegins, callPosts, callBeginOk, postCode>>
    /\ UNCHANGED <<wifiVars, wrapVars, classVars>>

\* lines 64-71: https.end(); log the status; log an error if it is bad
HttpsEnd ==
    /\ pc = "s_end"
    /\ connOpen' = FALSE
    /\ pc' = "s_return"
    /\ UNCHANGED <<T1C, calls, sosCalls, beginFails, ss_httpCode, callT1C, callSos,
                   callBegins, callPosts, callBeginOk, postCode>>
    /\ UNCHANGED <<wifiVars, wrapVars, classVars>>

\* line 76: return httpCode; the wrapper stores it (lines 37, 42) and, after
\* the first call, sets attempts = 1 (line 38)
SendReturn ==
    /\ pc = "s_return"
    /\ httpCode' = ss_httpCode
    /\ rets' = Append(rets, ss_httpCode)
    /\ attempts' = IF calls = 1 THEN InitialAttempts ELSE attempts
    /\ pc' = "r_while"
    /\ UNCHANGED <<max_attempts, T1C, calls, sosCalls, beginFails>>
    /\ UNCHANGED <<wifiVars, callVars, classVars>>

(***************************************************************************)
(* is_bad_http_code called with an arbitrary int                           *)
(***************************************************************************)
IsBadCall ==
    /\ pc = "idle"
    /\ \E c \in (0 - CodeSpan)..CodeSpan :
        /\ arg_code' = c
        /\ is_bad_result' = BoolStr(is_bad_http_code(c))
    /\ pc' = "classified"
    /\ UNCHANGED <<T1C, calls, sosCalls, beginFails>>
    /\ UNCHANGED <<wifiVars, wrapVars, callVars>>

Next ==
    \/ initialize_wifi
    \/ WifiWhile
    \/ WifiBody
    \/ WifiIf
    \/ send_data_retry
    \/ send_data_retry_max
    \/ RetryWhile
    \/ RetryBody
    \/ send_data
    \/ sos_mode_returns
    \/ sos_mode_halts
    \/ HttpsBegin
    \/ HttpsPost
    \/ HttpsEnd
    \/ SendReturn
    \/ IsBadCall

Spec == Init /\ [][Next]_vars

\* The program is one blocking thread of control: delay, WiFi.status, the
\* HTTPS calls (50 s timeout) all come back, so the thread always takes its
\* next step when it has one.
SpecLive == Init /\ [][Next]_vars /\ WF_vars(Next)

TypeOK ==
    /\ pc \in {"idle", "w_while", "w_body", "w_if", "s_enter", "sos_T1C",
               "s_begin", "sos_begin", "s_post", "s_end", "s_return",
               "r_while", "r_body", "done", "halted", "classified"}
    /\ wifi_attempts \in 0..(WifiAttemptLimit + 1)
    /\ wifi_ret \in {"none", "true", "false"}
    /\ T1C \in T1CValues
    /\ max_attempts \in 0..(UInt8 - 1)
    /\ attempts \in 0..(UInt8 - 1)
    /\ callBeginOk \in {"none", "ok", "fail"}
    /\ connOpen \in BOOLEAN
    /\ is_bad_result \in {"none", "true", "false"}
(***************************************************************************)
(* Properties                                                              *)
(***************************************************************************)
Max(a, b) == IF a >= b THEN a ELSE b
Min(a, b) == IF a <= b THEN a ELSE b
NonBad(c) == c \in 200..299
AllBad(s) == \A i \in 1..Len(s) : ~NonBad(s[i])
\* the retry wrapper has returned
WrapperDone == pc = "done" /\ calls >= 1
\* the single-shot sender has just returned into the wrapper
JustReturned == pc = "r_while"
\* WiFi.status() calls made by the while condition (line 17); the call of
\* line 26 is the last entry of pollLog once the function has returned
LoopPolls == IF wifi_ret = "none" THEN Len(pollLog) ELSE Len(pollLog) - 1

\* C1 (as stated): the wrapper starts at most max_attempts single-shot calls,
\* and starts none after the first call that returned a status in 200..299.
C1_AtMostMaxAttemptsCalls ==
    /\ calls <= max_attempts
    /\ \A i \in 1..Len(rets) : NonBad(rets[i]) => calls = i

\* C1 (amended): the wrapper starts at most max(1, max_attempts) single-shot
\* calls (the first call is unconditional), and starts none after the first
\* call that returned a status in 200..299.
C1_AtMostMaxOneMaxAttemptsCalls ==
    /\ calls <= Max(1, max_attempts)
    /\ \A i \in 1..Len(rets) : NonBad(rets[i]) => calls = i

C1_Witness ==
    /\ WrapperDone
    /\ max_attempts = 3
    /\ calls = 2
    /\ ~NonBad(rets[1])
    /\ NonBad(rets[2])

\* C2: when T1C is non-zero at entry to the single-shot sender, sos_mode is
\* invoked and that call makes no https.begin and no POST.
C2_NoConnectionWhenT1CSet ==
    (calls >= 1 /\ pc # "s_enter" /\ callT1C # 0)
        => callSos >= 1 /\ callBegins = 0 /\ callPosts = 0

\* C3: the polling loop of initialize_wifi polls WiFi.status() at most 10
\* times, one second apart, and the function returns false when none of
\* those polls saw WL_CONNECTED.
C3_PollsAtMostTen ==
    /\ LoopPolls <= WifiAttemptLimit
    /\ wifi_delay_ms <= WifiAttemptLimit * PollDelayMs
    /\ (/\ wifi_ret # "none"
        /\ \A i \in 1..Min(LoopPolls, WifiAttemptLimit) :
               pollLog[i] # WL_CONNECTED)
           => wifi_ret = "false"

\* C4: initialize_wifi returns true iff one of the polls of the loop inside
\* the budget of 10 saw WL_CONNECTED.
C4_TrueIffConnectedInBudget ==
    wifi_ret # "none" =>
        (wifi_ret = "true" <=>
            \E i \in 1..Min(LoopPolls, WifiAttemptLimit) :
                pollLog[i] = WL_CONNECTED)

\* C5: when https.begin fails in a single-shot call, sos_mode has been
\* invoked in that call, no POST is issued in it, and the value it returns
\* is -1.
C5_BeginFailureReturnsSentinel ==
    /\ callBeginOk = "fail" => callPosts = 0 /\ callSos >= 1
    /\ (pc = "s_return" /\ callBeginOk = "fail") => ss_httpCode = 0 - 1
    /\ (JustReturned /\ callBeginOk = "fail")
           => httpCode = 0 - 1 /\ rets[Len(rets)] = 0 - 1

C5_Witness ==
    /\ JustReturned
    /\ callBeginOk = "fail"
    /\ callSos >= 1
    /\ callPosts = 0
    /\ httpCode = 0 - 1

\* C6: within one wrapper call no single-shot call is started once sos_mode
\* has been invoked.
C6_NoCallAfterSos == [][calls' > calls => sosCalls = 0]_vars

\* C7 (as stated): if the first non-bad status arrives on call k with
\* k <= max_attempts, exactly k calls are made and the last returned it; if
\* every response is bad, exactly max_attempts calls are made.
C7_CallCountDetermined ==
    WrapperDone =>
        /\ \A k \in 1..Len(rets) :
              (k <= max_attempts /\ NonBad(rets[k])
                 /\ \A j \in 1..(k - 1) : ~NonBad(rets[j]))
              => calls = k /\ Len(rets) = k
        /\ AllBad(rets) => calls = max_attempts

\* C7 (amended): with cap = max(1, max_attempts): if the first non-bad status
\* arrives on call k <= cap, exactly k calls are made and the last returned
\* it; if every response is bad, exactly cap calls are made.
C7_CallCountDeterminedByCap ==
    WrapperDone =>
        /\ calls = Len(rets)
        /\ calls <= Max(1, max_attempts)
        /\ AllBad(SubSeq(rets, 1, calls - 1))
        /\ ~NonBad(rets[calls]) => calls = Max(1, max_attempts)

C7_Witness ==
    /\ WrapperDone
    /\ max_attempts = 4
    /\ rets = <<500, 500, 500, 200>>
    /\ calls = 4

\* C8: is_bad_http_code(c) is true iff c < 200 or c >= 300.
C8_IsBadIffOutside2xx ==
    is_bad_result # "none" =>
        (is_bad_result = "true" <=> (arg_code < 200 \/ arg_code >= 300))

C8_Witness == pc = "classified" /\ arg_code = 200 /\ is_bad_result = "false"

\* C9: in a wrapper call where T1C is 0 and every https.begin succeeds,
\* sos_mode is never invoked whatever statuses come back, and the wrapper
\* is not stopped by it.
C9_BadResponsesNeverEscalate ==
    (T1C = 0 /\ beginFails = 0) => sosCalls = 0 /\ callSos = 0 /\ pc # "halted"

C9_Witness ==
    /\ WrapperDone
    /\ T1C = 0
    /\ beginFails = 0
    /\ max_attempts = 3
    /\ calls = 3
    /\ AllBad(rets)
    /\ sosCalls = 0

\* C11: initialize_wifi always terminates: for every sequence of statuses
\* the polling loop makes a bounded number of iterations (at most 11 polls
\* and 11 delays) and the function then returns a boolean; it never invokes
\* sos_mode and calls WiFi.begin once only, also after giving up.
C11_WifiSafe ==
    /\ LoopPolls <= WifiAttemptLimit + 1
    /\ wifi_attempts <= WifiAttemptLimit + 1
    /\ wifi_delay_ms <= (WifiAttemptLimit + 1) * PollDelayMs
    /\ wifi_begins <= 1
    /\ wifi_begins >= 1 => sosCalls = 0 /\ pc \in {"w_while", "w_body", "w_if", "done"}
    /\ (wifi_begins >= 1 /\ pc = "done") => wifi_ret \in {"true", "false"}
C11_WifiTerminates ==
    /\ []C11_WifiSafe
    /\ (wifi_begins >= 1) ~> (pc = "done" /\ wifi_ret \in {"true", "false"})

C11_Witness ==
    /\ pc = "done"
    /\ wifi_begins = 1
    /\ wifi_ret = "false"
    /\ LoopPolls = WifiAttemptLimit + 1
    /\ \A i \in 1..Len(pollLog) : pollLog[i] # WL_CONNECTED

\* C12: in the retry wrapper the 8-bit counter attempts equals the number of
\* single-shot calls started (at the loop test, in the body before the
\* increment, while a retry call runs and when it has returned; in the call
\* statement of line 42, after attempts++, it already counts the call being
\* entered), it stays within 1..max(1, max_attempts) and its increment never
\* wraps past 255; so for every max_attempts, 255 included, the wrapper
\* returns unless a single-shot call does not come back.
InRetryCall ==
    /\ calls >= 2
    /\ pc \in {"sos_T1C", "s_begin", "sos_begin", "s_post", "s_end",
               "s_return", "halted"}
C12_CounterSafe ==
    /\ (pc \in {"r_while", "r_body"} \/ InRetryCall \/ WrapperDone)
           => /\ attempts = calls
              /\ attempts >= 1
              /\ attempts <= Max(1, max_attempts)
    /\ (pc = "s_enter" /\ calls >= 1)
           => /\ attempts = calls + 1
              /\ attempts >= 1
              /\ attempts <= Max(1, max_attempts)
    /\ pc = "r_body" => attempts + 1 < UInt8
C12_CounterBoundedAndTerminates ==
    /\ []C12_CounterSafe
    /\ (calls >= 1) ~> (pc = "done" \/ pc = "halted")

C12_Witness ==
    /\ WrapperDone
    /\ max_attempts = UInt8 - 1
    /\ attempts = UInt8 - 1
    /\ calls = UInt8 - 1
    /\ ~NonBad(httpCode)

\* C13: in a single-shot call a POST is issued only after https.begin has
\* succeeded in that call, at most one POST is issued per call, and a
\* connection that was opened is closed by https.end before the call
\* returns: no connection is open when a call returns, between calls or when
\* the next https.begin is made, so at most one request is in flight.
C13_ConnectionPaired ==
    /\ callPosts <= 1
    /\ callBegins <= 1
    /\ callPosts >= 1 => callBeginOk = "ok" /\ callBegins = 1
    /\ connOpen => pc \in {"s_post", "s_end"} /\ callBeginOk = "ok"
    /\ pc = "s_post" => connOpen /\ callPosts = 0
    /\ pc = "s_end" => connOpen /\ callPosts = 1
    /\ pc \in {"s_enter", "s_begin", "s_return", "r_while", "r_body", "done"}
           => ~connOpen

C13_Witness ==
    /\ JustReturned
    /\ calls = 2
    /\ callBeginOk = "ok"
    /\ callPosts = 1
    /\ ~connOpen

\* C10: with T1C = 0 and https.begin successful, a single-shot call issues
\* exactly one POST and returns the status that POST produced; when the first
\* status is 200 the wrapper makes exactly one single-shot call.
C10_ReturnsPostStatus ==
    /\ callPosts <= 1
    /\ (pc \in {"s_return", "r_while"} /\ callT1C = 0 /\ callBeginOk = "ok")
           => callPosts = 1 /\ ss_httpCode = postCode
    /\ (JustReturned /\ callT1C = 0 /\ callBeginOk = "ok")
           => httpCode = postCode /\ rets[Len(rets)] = postCode
    /\ (Len(rets) >= 1 /\ rets[1] = 200) => calls = 1 /\ Len(rets) = 1

C10_Witness ==
    /\ WrapperDone
    /\ T1C = 0
    /\ callBeginOk = "ok"
    /\ callPosts = 1
    /\ max_attempts = 3
    /\ rets = <<200>>
    /\ calls = 1
====
